---- MODULE Spec2Model ----
(***************************************************************************)
(* yt-api-videosum: the retrieval-and-aggregation pipeline of run()        *)
(* (src/src/lib.rs) as a state machine.                                    *)
(*                                                                         *)
(* run() is sequential.  Its position is pc; one action is one step of it: *)
(* the channel lookup, the receipt of a playlist page, one element of the  *)
(* page's items array, the end of a page (continuation token, reported     *)
(* total, stop test), one video, the CSV rewrite, the summary.             *)
(*                                                                         *)
(* The API is the environment.  A response document is read lazily: each   *)
(* step draws the fields it reads from small sets, and json holds what the *)
(* step read.  The text written to the output file for a raw response is   *)
(* abstracted to the response's serial number (the n-th document received).*)
(*                                                                         *)
(* TimeDelta values are whole seconds; DateTime<Utc> values are instants   *)
(* numbered 1, 2, 3.  File I/O on the output is taken to succeed.          *)
(***************************************************************************)
EXTENDS Integers, Sequences, FiniteSets, TLC

VARIABLES
    config,           \* Config: start_date, end_date, output (is a sink configured)
    src,              \* the synthetic paginated source (SpecSource only)
    pc,               \* position in run()
    result,           \* "running", or how run() ended: "Ok", "Err", "panic"
    error,            \* the message of the Err returned
    json,             \* what the last step read from a response
    received,         \* number of response documents request() has returned
    requests,         \* the requests issued so far, in order
    out,              \* content of the output file
    playlist_id_pub,
    video_ids,
    next_page_token,
    array_len,        \* array.len() of the current page
    idx,              \* elements of array processed so far
    processed,        \* items of all pages processed so far, skipped ones included
    videos,
    stdout,           \* the lines printed that the model keeps
    call              \* a call of dissect_delta: its arguments, what it returned

vars == <<config, src, pc, result, error, json, received, requests, out,
          playlist_id_pub, video_ids, next_page_token, array_len, idx,
          processed, videos, stdout, call>>

(***************************************************************************)
(* Bounds of the model.                                                    *)
(***************************************************************************)
MaxPages == 2            \* page requests the API lets a run make
MaxPageLen == 2          \* elements in one page's items array
MaxIds == 2              \* identifiers a run collects
MaxTotal == 3            \* largest totalResults a page reports
MaxChannelResults == 2   \* largest totalResults the channel lookup reports
MaxN == 4                \* items held by the synthetic source
MaxP == 3                \* page size of the synthetic source
MaxDays == 2             \* whole days in a span handed to dissect_delta

(***************************************************************************)
(* Option and Result values.                                               *)
(***************************************************************************)
None == [tag |-> "None"]
Some(v) == [tag |-> "Some", v |-> v]
Ok(v) == [tag |-> "Ok", v |-> v]
Err(msg) == [tag |-> "Err", msg |-> msg]

\* Option::unwrap_or
unwrap_or(opt, default) == IF opt.tag = "Some" THEN opt.v ELSE default

Min(a, b) == IF a <= b THEN a ELSE b

(***************************************************************************)
(* JSON values as the code sees them: a field that is absent, a field of   *)
(* another JSON type than the one asked for, a string, an unsigned number, *)
(* an array (of which only the length is kept).                            *)
(***************************************************************************)
Absent == [t |-> "absent"]
Wrong == [t |-> "wrong"]
JStr(s) == [t |-> "str", s |-> s]
JNum(n) == [t |-> "num", n |-> n]
JArr(n) == [t |-> "arr", n |-> n]

\* json.pointer(..).ok_or(missing)?.as_str().ok_or(invalid)?
as_str(v, missing, invalid) ==
    IF v.t = "absent" THEN Err(missing)
    ELSE IF v.t # "str" THEN Err(invalid)
    ELSE Ok(v.s)

\* json.pointer(..).ok_or(missing)?.as_u64().ok_or(invalid)?
as_u64(v, missing, invalid) ==
    IF v.t = "absent" THEN Err(missing)
    ELSE IF v.t # "num" THEN Err(invalid)
    ELSE Ok(v.n)

\* json.get("items").ok_or(missing)?.as_array().ok_or(invalid)?
as_array(v, missing, invalid) ==
    IF v.t = "absent" THEN Err(missing)
    ELSE IF v.t # "arr" THEN Err(invalid)
    ELSE Ok(v.n)

(***************************************************************************)
(* Timestamps.  DateTime::parse_from_rfc3339 followed by the conversion to *)
(* UTC maps a string to an instant; to_rfc3339_opts(Secs, true) prints an  *)
(* instant in UTC with the 'Z' suffix.                                     *)
(***************************************************************************)
Rfc3339Instant ==
    [s \in {"2024-01-01T00:00:00Z", "2024-01-02T00:00:00Z",
            "2024-01-02T01:00:00+01:00", "2024-01-03T00:00:00Z"} |->
        CASE s = "2024-01-01T00:00:00Z" -> 1
          [] s = "2024-01-02T00:00:00Z" -> 2
          [] s = "2024-01-02T01:00:00+01:00" -> 2
          [] s = "2024-01-03T00:00:00Z" -> 3]

parse_from_rfc3339(s) ==
    IF s \in DOMAIN Rfc3339Instant THEN Ok(Rfc3339Instant[s])
    ELSE Err("Could not parse 'publishedAt' timestamp: input contains invalid characters")

to_rfc3339_opts(instant) ==
    CASE instant = 1 -> "2024-01-01T00:00:00Z"
      [] instant = 2 -> "2024-01-02T00:00:00Z"
      [] instant = 3 -> "2024-01-03T00:00:00Z"

(***************************************************************************)
(* Durations.  period::parse_delta: the seconds of a duration expression,  *)
(* each present component contributing magnitude x unit seconds; None for  *)
(* anything else.                                                          *)
(***************************************************************************)
DurationSeconds ==
    [s \in {"PT30S", "PT45S", "PT1M", "PT2M30S", "P0DT1H2M3S", "P1DT1H1M1S"} |->
        CASE s = "PT30S" -> 30
          [] s = "PT45S" -> 45
          [] s = "PT1M" -> 60
          [] s = "PT2M30S" -> 2 * 60 + 30
          [] s = "P0DT1H2M3S" -> 0 * 86400 + 1 * 3600 + 2 * 60 + 3
          [] s = "P1DT1H1M1S" -> 1 * 86400 + 1 * 3600 + 1 * 60 + 1]

parse_delta(s) ==
    IF s \in DOMAIN DurationSeconds THEN Some(DurationSeconds[s]) ELSE None

\* Video::new with a zero span for a duration that does not parse
Video_new_zero(date, title, id, duration) ==
    LET delta == parse_delta(duration)
    IN  Ok([date |-> date, title |-> title, id |-> id, duration |-> duration,
            delta |-> IF delta.tag = "None" THEN 0 ELSE delta.v])

\* Video::new
Video_new(date, title, id, duration) ==
    LET delta == parse_delta(duration)
    IN  IF delta.tag = "None" THEN Err("Could not parse 'duration' field")
        ELSE Ok([date |-> date, title |-> title, id |-> id,
                 duration |-> duration, delta |-> delta.v])

\* impl Display for Video: one CSV row
Video_fmt(v) ==
    to_rfc3339_opts(v.date) \o "," \o v.title \o "," \o v.id \o ","
        \o v.duration \o "," \o ToString(v.delta)

(***************************************************************************)
(* TimeBase, ordered as declared (derive(PartialOrd)), and dissect_delta.  *)
(* dissect keeps, beside the text, the components pushed and what remains  *)
(* of delta at the end.                                                    *)
(***************************************************************************)
TB_Seconds == 0
TB_Minutes == 1
TB_Hours == 2
TB_Days == 3

plural(x) == IF x = 1 THEN "" ELSE "s"

\* dissect_delta without the subtraction of the minutes taken
dissect_minutes_kept(delta0, base) ==
    LET s0 == [out |-> "", delta |-> delta0, parts |-> <<>>]
        s1 == IF s0.delta >= 86400 /\ base >= TB_Days
              THEN LET d == s0.delta \div 86400
                   IN  [out |-> s0.out \o ToString(d) \o " day" \o plural(d),
                        delta |-> s0.delta - d * 86400,
                        parts |-> Append(s0.parts, [unit |-> "day", n |-> d])]
              ELSE s0
        s2 == IF s1.delta >= 3600 /\ base >= TB_Hours
              THEN LET h == s1.delta \div 3600
                       sep == IF h > 0 /\ s1.out # "" THEN " " ELSE ""
                   IN  [out |-> s1.out \o sep \o ToString(h) \o " hour" \o plural(h),
                        delta |-> s1.delta - h * 3600,
                        parts |-> Append(s1.parts, [unit |-> "hour", n |-> h])]
              ELSE s1
        s3 == IF s2.delta >= 60 /\ base >= TB_Minutes
              THEN LET m == s2.delta \div 60
                       sep == IF m > 0 /\ s2.out # "" THEN " " ELSE ""
                   IN  [out |-> s2.out \o sep \o ToString(m) \o " minute" \o plural(m),
                        delta |-> s2.delta,
                        parts |-> Append(s2.parts, [unit |-> "minute", n |-> m])]
              ELSE s2
        s == s3.delta
        s4 == IF s > 0 \/ s3.out = ""
              THEN LET sep == IF s3.out # "" THEN " " ELSE ""
                   IN  [out |-> s3.out \o sep \o ToString(s) \o " second" \o plural(s),
                        delta |-> s3.delta - s,
                        parts |-> Append(s3.parts, [unit |-> "second", n |-> s])]
              ELSE [s3 EXCEPT !.delta = s3.delta - s]
    IN  s4

\* dissect_delta taking days whatever the base
dissect_any_base(delta0, base) ==
    LET s0 == [out |-> "", delta |-> delta0, parts |-> <<>>]
        s1 == IF s0.delta >= 86400
              THEN LET d == s0.delta \div 86400
                   IN  [out |-> s0.out \o ToString(d) \o " day" \o plural(d),
                        delta |-> s0.delta - d * 86400,
                        parts |-> Append(s0.parts, [unit |-> "day", n |-> d])]
              ELSE s0
        s2 == IF s1.delta >= 3600 /\ base >= TB_Hours
              THEN LET h == s1.delta \div 3600
                       sep == IF h > 0 /\ s1.out # "" THEN " " ELSE ""
                   IN  [out |-> s1.out \o sep \o ToString(h) \o " hour" \o plural(h),
                        delta |-> s1.delta - h * 3600,
                        parts |-> Append(s1.parts, [unit |-> "hour", n |-> h])]
              ELSE s1
        s3 == IF s2.delta >= 60 /\ base >= TB_Minutes
              THEN LET m == s2.delta \div 60
                       sep == IF m > 0 /\ s2.out # "" THEN " " ELSE ""
                   IN  [out |-> s2.out \o sep \o ToString(m) \o " minute" \o plural(m),
                        delta |-> s2.delta - m * 60,
                        parts |-> Append(s2.parts, [unit |-> "minute", n |-> m])]
              ELSE s2
        s == s3.delta
        s4 == IF s > 0 \/ s3.out = ""
              THEN LET sep == IF s3.out # "" THEN " " ELSE ""
                   IN  [out |-> s3.out \o sep \o ToString(s) \o " second" \o plural(s),
                        delta |-> s3.delta - s,
                        parts |-> Append(s3.parts, [unit |-> "second", n |-> s])]
              ELSE [s3 EXCEPT !.delta = s3.delta - s]
    IN  s4

\* dissect_delta pushing the seconds whatever their count
dissect_always_seconds(delta0, base) ==
    LET s0 == [out |-> "", delta |-> delta0, parts |-> <<>>]
        s1 == IF s0.delta >= 86400 /\ base >= TB_Days
              THEN LET d == s0.delta \div 86400
                   IN  [out |-> s0.out \o ToString(d) \o " day" \o plural(d),
                        delta |-> s0.delta - d * 86400,
                        parts |-> Append(s0.parts, [unit |-> "day", n |-> d])]
              ELSE s0
        s2 == IF s1.delta >= 3600 /\ base >= TB_Hours
              THEN LET h == s1.delta \div 3600
                       sep == IF h > 0 /\ s1.out # "" THEN " " ELSE ""
                   IN  [out |-> s1.out \o sep \o ToString(h) \o " hour" \o plural(h),
                        delta |-> s1.delta - h * 3600,
                        parts |-> Append(s1.parts, [unit |-> "hour", n |-> h])]
              ELSE s1
        s3 == IF s2.delta >= 60 /\ base >= TB_Minutes
              THEN LET m == s2.delta \div 60
                       sep == IF m > 0 /\ s2.out # "" THEN " " ELSE ""
                   IN  [out |-> s2.out \o sep \o ToString(m) \o " minute" \o plural(m),
                        delta |-> s2.delta - m * 60,
                        parts |-> Append(s2.parts, [unit |-> "minute", n |-> m])]
              ELSE s2
        s == s3.delta
        s4 == IF TRUE
              THEN LET sep == IF s3.out # "" THEN " " ELSE ""
                   IN  [out |-> s3.out \o sep \o ToString(s) \o " second" \o plural(s),
                        delta |-> s3.delta - s,
                        parts |-> Append(s3.parts, [unit |-> "second", n |-> s])]
              ELSE [s3 EXCEPT !.delta = s3.delta - s]
    IN  s4

\* lines 271-308
dissect(delta0, base) ==
    LET s0 == [out |-> "", delta |-> delta0, parts |-> <<>>]
        s1 == IF s0.delta >= 86400 /\ base >= TB_Days
              THEN LET d == s0.delta \div 86400
                   IN  [out |-> s0.out \o ToString(d) \o " day" \o plural(d),
                        delta |-> s0.delta - d * 86400,
                        parts |-> Append(s0.parts, [unit |-> "day", n |-> d])]
              ELSE s0
        s2 == IF s1.delta >= 3600 /\ base >= TB_Hours
              THEN LET h == s1.delta \div 3600
                       sep == IF h > 0 /\ s1.out # "" THEN " " ELSE ""
                   IN  [out |-> s1.out \o sep \o ToString(h) \o " hour" \o plural(h),
                        delta |-> s1.delta - h * 3600,
                        parts |-> Append(s1.parts, [unit |-> "hour", n |-> h])]
              ELSE s1
        s3 == IF s2.delta >= 60 /\ base >= TB_Minutes
              THEN LET m == s2.delta \div 60
                       sep == IF m > 0 /\ s2.out # "" THEN " " ELSE ""
                   IN  [out |-> s2.out \o sep \o ToString(m) \o " minute" \o plural(m),
                        delta |-> s2.delta - m * 60,
                        parts |-> Append(s2.parts, [unit |-> "minute", n |-> m])]
              ELSE s2
        s == s3.delta
        s4 == IF s > 0 \/ s3.out = ""
              THEN LET sep == IF s3.out # "" THEN " " ELSE ""
                   IN  [out |-> s3.out \o sep \o ToString(s) \o " second" \o plural(s),
                        delta |-> s3.delta - s,
                        parts |-> Append(s3.parts, [unit |-> "second", n |-> s])]
              ELSE [s3 EXCEPT !.delta = s3.delta - s]
    IN  s4

dissect_delta(delta, base) == dissect(delta, base).out

(***************************************************************************)
(* request: one round trip.  The outcome http is a document, a non-success *)
(* status, a transport failure, or a body that is not JSON.                *)
(***************************************************************************)
HttpFaults ==
    {[http |-> "status"], [http |-> "transport"], [http |-> "badjson"]}

HttpOk(body) == [http |-> "ok", body |-> body]

request(http) ==
    CASE http.http = "ok" -> Ok(http.body)
      [] http.http = "badjson" -> Err("Failed to read JSON")
      [] http.http = "status" -> Err("Received HTTP status code")
      [] http.http = "transport" -> Err("HTTP transfer failure")

(***************************************************************************)
(* write_out: with a sink configured, truncate the file and write item.    *)
(* The file is the sequence of the chunks written since its last           *)
(* truncation; the chunk of a raw response is its serial number.           *)
(***************************************************************************)
RawChunk(serial) == [kind |-> "json", serial |-> serial]
LineChunk(text) == [kind |-> "line", text |-> text]

\* write_out without set_len(0) and rewind
write_out_append(file, item) ==
    IF config.output THEN Append(file, RawChunk(item)) ELSE file

write_out(file, item) ==
    IF config.output THEN <<RawChunk(item)>> ELSE file

CsvHeader == "#publishedAt,title,videoId,duration,duration_seconds"

RECURSIVE CsvRows(_)
CsvRows(vs) ==
    IF vs = <<>> THEN <<>>
    ELSE <<LineChunk(Video_fmt(Head(vs)))>> \o CsvRows(Tail(vs))

\* lines 215-221: set_len(0), rewind, header, one row per video
write_csv(file, vs) ==
    IF config.output THEN <<LineChunk(CsvHeader)>> \o CsvRows(vs) ELSE file

\* the fold overwriting the accumulator
fold_delta_overwrite(vs) ==
    IF vs = <<>> THEN 0 ELSE vs[Len(vs)].delta

\* videos.iter().fold(TimeDelta::zero(), |acc, v| acc + v.delta)
RECURSIVE fold_delta(_)
fold_delta(vs) ==
    IF vs = <<>> THEN 0 ELSE Head(vs).delta + fold_delta(Tail(vs))

(***************************************************************************)
(* The steps of run().                                                     *)
(***************************************************************************)
\* an Err that is noted and not returned
Fail_swallow(msg) == /\ result' = result /\ error' = msg /\ pc' = pc

\* the `?` operator on an Err: run() returns it
Fail(msg) == /\ result' = "Err" /\ error' = msg /\ pc' = "done"

\* run() goes on at position next
Continue(next) == /\ result' = result /\ error' = error /\ pc' = next

UULF == <<"U", "U", "L", "F">>

\* any result taken as the channel
one_result_or_more(n) == n >= 1

\* line 86: the match arm for exactly one result
one_result(n) == n = 1

\* lines 73-100: channel lookup, playlist id
ChannelStep(http) ==
    /\ pc = "channel"
    /\ requests' = Append(requests, [kind |-> "channels"])
    /\ LET r == request(http)
       IN  IF r.tag = "Err"
           THEN /\ Fail(r.msg)
                /\ json' = [kind |-> "fault", http |-> http.http]
                /\ UNCHANGED <<received, out, playlist_id_pub, stdout>>
           ELSE LET n == as_u64(r.v.totalResults,
                                "Could not find 'totalResults' field",
                                "Invalid 'totalResults' format")
                    u == as_str(r.v.uploads,
                                "Could not find 'uploads' id field",
                                "Invalid 'uploads' id format")
                IN  /\ json' = r.v
                    /\ received' = received + 1
                    /\ out' = write_out(out, received + 1)
                    /\ IF n.tag = "Err"
                       THEN Fail(n.msg) /\ UNCHANGED <<playlist_id_pub, stdout>>
                       ELSE IF one_result(n.v)
                       THEN IF u.tag = "Err"
                            THEN Fail(u.msg) /\ UNCHANGED <<playlist_id_pub, stdout>>
                            ELSE IF Len(u.v) < 2
                            THEN \* &playlist_id[2..] is out of range
                                 /\ result' = "panic" /\ pc' = "done"
                                 /\ UNCHANGED <<error, playlist_id_pub, stdout>>
                            ELSE /\ playlist_id_pub' = UULF \o SubSeq(u.v, 3, Len(u.v))
                                 /\ Continue("page")
                                 /\ UNCHANGED stdout
                       ELSE /\ stdout' = Append(stdout,
                                   [line |-> "Warning: More than one result", n |-> n.v])
                            /\ result' = "Ok" /\ pc' = "done"
                            /\ UNCHANGED <<error, playlist_id_pub>>
    /\ UNCHANGED <<config, src, call, video_ids, next_page_token, array_len, idx,
                   processed, videos>>

\* lines 107-116: request a page, forward it to the sink, find the items array
PageReceive(http) ==
    /\ pc = "page"
    /\ requests' = Append(requests,
            [kind |-> "playlistItems", playlistId |-> playlist_id_pub,
             pageToken |-> unwrap_or(next_page_token, "")])
    /\ LET r == request(http)
       IN  IF r.tag = "Err"
           THEN /\ Fail(r.msg)
                /\ json' = [kind |-> "fault", http |-> http.http]
                /\ UNCHANGED <<received, out, array_len, idx>>
           ELSE LET array == as_array(r.v.items,
                                      "Could not find 'items' array",
                                      "Invalid 'items' format")
                IN  /\ json' = r.v
                    /\ received' = received + 1
                    /\ out' = write_out(out, received + 1)
                    /\ IF array.tag = "Err"
                       THEN Fail(array.msg) /\ UNCHANGED <<array_len, idx>>
                       ELSE /\ array_len' = array.v
                            /\ idx' = 0
                            /\ Continue(IF array.v = 0 THEN "page_end" ELSE "item")
    /\ UNCHANGED <<config, src, call, playlist_id_pub, video_ids, next_page_token,
                   processed, videos, stdout>>

\* the filter without its end bound
filtered_out_start_only(date) ==
    config.start_date.tag = "Some" /\ date < config.start_date.v

\* lines 129-138: is the item outside the configured interval
filtered_out(date) ==
    \/ config.start_date.tag = "Some" /\ date < config.start_date.v
    \/ config.end_date.tag = "Some" /\ date > config.end_date.v

\* lines 118-146: one element e of the items array
ItemStep(e) ==
    /\ pc = "item"
    /\ json' = e
    /\ LET s == as_str(e.publishedAt,
                       "Could not find 'publishedAt' field",
                       "Invalid 'publishedAt' format")
           date == parse_from_rfc3339(s.v)
           id == as_str(e.videoId,
                        "Could not find 'videoId' field",
                        "Invalid 'videoId' format")
           next == IF idx + 1 = array_len THEN "page_end" ELSE "item"
       IN  IF s.tag = "Err"
           THEN Fail(s.msg) /\ UNCHANGED <<video_ids, idx, processed>>
           ELSE IF date.tag = "Err"
           THEN Fail(date.msg) /\ UNCHANGED <<video_ids, idx, processed>>
           ELSE IF filtered_out(date.v)
           THEN \* continue
                /\ idx' = idx + 1
                /\ processed' = processed + 1
                /\ Continue(next)
                /\ UNCHANGED video_ids
           ELSE IF id.tag = "Err"
           THEN Fail(id.msg) /\ UNCHANGED <<video_ids, idx, processed>>
           ELSE /\ video_ids' = Append(video_ids, id.v)
                /\ idx' = idx + 1
                /\ processed' = processed + 1
                /\ Continue(next)
    /\ UNCHANGED <<config, src, call, received, requests, out, playlist_id_pub,
                   next_page_token, array_len, videos, stdout>>

\* the identifiers taken from the end of the list
current_id_reversed(ids, i) == ids[Len(ids) - i]

\* line 170: the identifier the for loop yields at index i
current_id(ids, i) == ids[i + 1]

\* the for loop leaving one identifier out
next_video_early(done, ids) == IF done + 1 >= Len(ids) THEN "output" ELSE "video"

\* lines 170, 212: the for loop ends after the last identifier
next_video(done, ids) == IF done = Len(ids) THEN "output" ELSE "video"

\* stop test that counts the page being looked at twice
stop_paging_early(len, token, ids, total) ==
    len = 0 \/ token.tag = "None" \/ Len(ids) + 1 >= total

\* stop test without the empty-page test
stop_paging_no_empty(len, token, ids, total) ==
    token.tag = "None" \/ Len(ids) >= total

\* stop test that takes the length of the page for the reported total
stop_paging_per_page(len, token, ids, total) ==
    len = 0 \/ token.tag = "None" \/ Len(ids) >= len

\* line 160: the loop's break test
stop_paging(len, token, ids, total) ==
    len = 0 \/ token.tag = "None" \/ Len(ids) >= total

\* lines 148-164: continuation token, reported total, stop test; array goes
\* out of scope when the loop is left
PageFinish(tokenField, totalField) ==
    /\ pc = "page_end"
    /\ json' = [kind |-> "page_end", nextPageToken |-> tokenField,
                totalResults |-> totalField]
    /\ LET t == as_str(tokenField, "", "Invalid 'nextPageToken' format")
           token == IF tokenField.t = "absent" THEN None ELSE Some(t.v)
           total_results == as_u64(totalField,
                                   "Could not find 'totalResults' field",
                                   "Invalid 'totalResults' format")
       IN  IF tokenField.t # "absent" /\ t.tag = "Err"
           THEN Fail(t.msg) /\ UNCHANGED <<next_page_token, array_len, idx, stdout>>
           ELSE IF total_results.tag = "Err"
           THEN /\ Fail(total_results.msg)
                /\ UNCHANGED <<next_page_token, array_len, idx, stdout>>
           ELSE /\ next_page_token' = token
                /\ IF stop_paging(array_len, token, video_ids, total_results.v)
                   THEN /\ stdout' = Append(stdout,
                               [line |-> "Video count", n |-> Len(video_ids)])
                        /\ array_len' = 0
                        /\ idx' = 0
                        /\ Continue(next_video(0, video_ids))
                   ELSE Continue("page") /\ UNCHANGED <<array_len, idx, stdout>>
    /\ UNCHANGED <<config, src, call, received, requests, out, playlist_id_pub,
                   video_ids, processed, videos>>

\* lines 170-212: one video of video_ids, at index i = videos.len()
VideoStep(http) ==
    /\ pc = "video"
    /\ LET id == current_id(video_ids, Len(videos))
           r == request(http)
       IN  /\ requests' = Append(requests, [kind |-> "videos", id |-> id])
           /\ IF r.tag = "Err"
              THEN /\ Fail(r.msg)
                   /\ json' = [kind |-> "fault", http |-> http.http]
                   /\ UNCHANGED <<received, out, videos>>
              ELSE LET s == as_str(r.v.publishedAt,
                                   "Could not find 'publishedAt' field",
                                   "Invalid 'publishedAt' format")
                       date == parse_from_rfc3339(s.v)
                       title == as_str(r.v.title,
                                       "Could not find 'title' field",
                                       "Invalid 'title' format")
                       duration == as_str(r.v.duration,
                                          "Could not find 'duration' field",
                                          "Invalid 'duration' format")
                       video == Video_new(date.v, title.v, id, duration.v)
                   IN  /\ json' = r.v
                       /\ received' = received + 1
                       /\ out' = write_out(out, received + 1)
                       /\ IF s.tag = "Err"
                          THEN Fail(s.msg) /\ UNCHANGED videos
                          ELSE IF date.tag = "Err"
                          THEN Fail(date.msg) /\ UNCHANGED videos
                          ELSE IF title.tag = "Err"
                          THEN Fail(title.msg) /\ UNCHANGED videos
                          ELSE IF duration.tag = "Err"
                          THEN Fail(duration.msg) /\ UNCHANGED videos
                          ELSE IF video.tag = "Err"
                          THEN Fail(video.msg) /\ UNCHANGED videos
                          ELSE /\ videos' = Append(videos, video.v)
                               /\ Continue(next_video(Len(videos) + 1, video_ids))
    /\ UNCHANGED <<config, src, call, playlist_id_pub, video_ids, next_page_token,
                   array_len, idx, processed, stdout>>

\* lines 215-225: rewrite the output as CSV
WriteOutput ==
    /\ pc = "output"
    /\ out' = write_csv(out, videos)
    /\ stdout' = Append(stdout,
            [line |-> IF config.output
                      THEN "Success, output written to 'output.txt'."
                      ELSE "Success."])
    /\ Continue("summary")
    /\ UNCHANGED <<config, src, call, json, received, requests, playlist_id_pub,
                   video_ids, next_page_token, array_len, idx, processed,
                   videos>>

\* lines 227-232: the summary line
sum_total(vs) ==
    LET total == fold_delta(vs)
    IN  [line |-> "Sum total", seconds |-> total,
         rendering |-> IF total >= 60
                       THEN Some(dissect_delta(total, TB_Hours))
                       ELSE None]

\* lines 227-234
Summary ==
    /\ pc = "summary"
    /\ stdout' = Append(stdout, sum_total(videos))
    /\ result' = "Ok"
    /\ pc' = "done"
    /\ UNCHANGED <<config, src, call, error, json, received, requests, out,
                   playlist_id_pub, video_ids, next_page_token, array_len, idx,
                   processed, videos>>

(***************************************************************************)
(* The environment: what the API may answer.                               *)
(***************************************************************************)
PageRequests == {k \in DOMAIN requests : requests[k].kind = "playlistItems"}

VideoRequests == {k \in DOMAIN requests : requests[k].kind = "videos"}

Bounds == {None, Some(2)}

Configs == [start_date : Bounds, end_date : Bounds, output : BOOLEAN]

ChannelBodies ==
    [kind : {"channel"},
     totalResults : {Absent, Wrong} \cup {JNum(n) : n \in 0..MaxChannelResults},
     uploads : {Absent, Wrong, JStr(<<"U", "U", "x", "y">>), JStr(<<"U">>)}]

PageBodies ==
    [kind : {"page"},
     items : {Absent, Wrong} \cup {JArr(n) : n \in 0..MaxPageLen}]

Items ==
    [kind : {"item"},
     publishedAt : {Absent, Wrong, JStr("2024-01-01T00:00:00Z"),
                    JStr("2024-01-02T00:00:00Z"), JStr("2024-01-03T00:00:00Z"),
                    JStr("yesterday")},
     videoId : {Absent, Wrong, JStr("a"), JStr("b")}]

\* the token a page carries names the page that follows it
TokenFields == {Absent, Wrong, JStr(ToString(Cardinality(PageRequests)))}

TotalFields == {Absent, Wrong} \cup {JNum(n) : n \in 0..MaxTotal}

\* video responses: well formed with each duration, one faulty field at a
\* time, and an unparseable duration behind a faulty timestamp or title
VideoBody(publishedAt, title, duration) ==
    [kind |-> "video", publishedAt |-> publishedAt, title |-> title,
     duration |-> duration]

VideoBodies ==
    LET date == JStr("2024-01-02T01:00:00+01:00")
        title == JStr("t")
    IN  {VideoBody(date, title, d) :
            d \in {Absent, Wrong, JStr("PT30S"), JStr("PT1M"),
                   JStr("P1DT1H1M1S"), JStr("1:30")}}
        \cup {VideoBody(p, title, JStr("PT30S")) :
            p \in {Absent, Wrong, JStr("yesterday")}}
        \cup {VideoBody(date, t, JStr("PT30S")) : t \in {Absent, Wrong}}
        \cup {VideoBody(JStr("yesterday"), title, JStr("1:30")),
              VideoBody(date, Absent, JStr("1:30"))}

NoSource == [items |-> <<>>, P |-> 1]

InitRun ==
    /\ pc = "channel"
    /\ result = "running"
    /\ error = ""
    /\ json = [kind |-> "none"]
    /\ received = 0
    /\ requests = <<>>
    /\ out = <<>>
    /\ playlist_id_pub = <<>>
    /\ video_ids = <<>>
    /\ next_page_token = None
    /\ array_len = 0
    /\ idx = 0
    /\ processed = 0
    /\ videos = <<>>
    /\ stdout = <<>>

NoCall == [delta |-> 0, base |-> TB_Seconds, ret |-> None]

Init ==
    /\ config \in Configs
    /\ src = NoSource
    /\ call = NoCall
    /\ InitRun

ChannelReq ==
    \E http \in HttpFaults \cup {HttpOk(b) : b \in ChannelBodies} :
        ChannelStep(http)

PageReq ==
    \E http \in HttpFaults \cup {HttpOk(b) : b \in PageBodies} :
        /\ http.http = "ok" /\ http.body.items.t = "arr"
               => Len(video_ids) + http.body.items.n <= MaxIds
        /\ PageReceive(http)

ItemRead == \E e \in Items : ItemStep(e)

PageEnd ==
    \E tokenField \in TokenFields, totalField \in TotalFields :
        \* the last page the API serves does not ask for another
        /\ Cardinality(PageRequests) >= MaxPages
               => ~(/\ tokenField.t = "str"
                    /\ totalField.t = "num"
                    /\ array_len > 0
                    /\ totalField.n > Len(video_ids))
        /\ PageFinish(tokenField, totalField)

VideoReq ==
    \E http \in HttpFaults \cup {HttpOk(b) : b \in VideoBodies} :
        VideoStep(http)

Next ==
    \/ ChannelReq
    \/ PageReq
    \/ ItemRead
    \/ PageEnd
    \/ VideoReq
    \/ WriteOutput
    \/ Summary

Spec == Init /\ [][Next]_vars

(***************************************************************************)
(* The synthetic paginated source: N = Len(src.items) items served in      *)
(* pages of src.P, every page reporting the total N and carrying a         *)
(* continuation token except the last.  The token of a page is the number  *)
(* of the page it leads to; the empty token leads to page 0.               *)
(***************************************************************************)
SourceDates ==
    {"2024-01-01T00:00:00Z", "2024-01-02T00:00:00Z", "2024-01-03T00:00:00Z"}

SourceItems(dates) ==
    [k \in DOMAIN dates |->
        [publishedAt |-> dates[k], videoId |-> "v" \o ToString(k)]]

Sources ==
    {[items |-> SourceItems(dates), P |-> p] :
        dates \in UNION {[1..n -> SourceDates] : n \in 0..MaxN}, p \in 1..MaxP}

PageOfToken(t) == IF t = "" THEN 0 ELSE CHOOSE k \in 1..MaxN : ToString(k) = t

SourcePage(k) ==
    SubSeq(src.items, k * src.P + 1, Min((k + 1) * src.P, Len(src.items)))

\* the page the last page request asked for
CurrentPage == PageOfToken(requests[Len(requests)].pageToken)

SourceVideo(id) ==
    LET k == CHOOSE j \in DOMAIN src.items : src.items[j].videoId = id
    IN  [kind |-> "video",
         publishedAt |-> JStr(src.items[k].publishedAt),
         title |-> JStr("t"),
         duration |-> JStr(IF k % 2 = 1 THEN "PT30S" ELSE "PT1M")]

InitSource ==
    /\ config \in Configs
    /\ src \in Sources
    /\ call = NoCall
    /\ InitRun

SrcChannelReq ==
    ChannelStep(HttpOk([kind |-> "channel", totalResults |-> JNum(1),
                        uploads |-> JStr(<<"U", "U", "x", "y">>)]))

SrcPageReq ==
    /\ pc = "page"
    /\ PageReceive(HttpOk([kind |-> "page",
            items |-> JArr(Len(SourcePage(
                PageOfToken(unwrap_or(next_page_token, "")))))]))

SrcItemRead ==
    /\ pc = "item"
    /\ LET it == SourcePage(CurrentPage)[idx + 1]
       IN  ItemStep([kind |-> "item", publishedAt |-> JStr(it.publishedAt),
                     videoId |-> JStr(it.videoId)])

SrcPageEnd ==
    /\ pc = "page_end"
    /\ PageFinish(IF (CurrentPage + 1) * src.P < Len(src.items)
                  THEN JStr(ToString(CurrentPage + 1)) ELSE Absent,
                  JNum(Len(src.items)))

SrcVideoReq ==
    /\ pc = "video"
    /\ VideoStep(HttpOk(SourceVideo(current_id(video_ids, Len(videos)))))

NextSource ==
    \/ SrcChannelReq
    \/ SrcPageReq
    \/ SrcItemRead
    \/ SrcPageEnd
    \/ SrcVideoReq
    \/ WriteOutput
    \/ Summary

SpecSource == InitSource /\ [][NextSource]_vars

(***************************************************************************)
(* Properties.                                                             *)
(***************************************************************************)
Max(a, b) == IF a >= b THEN a ELSE b

Ceil(n, p) == (n + p - 1) \div p

NoFilter == config.start_date = None /\ config.end_date = None

\* the pagination loop has been left without an error
PagingDone ==
    \/ pc \in {"video", "output", "summary"}
    \/ pc = "done" /\ result = "Ok" /\ json.kind # "channel"

SourceIds == [k \in DOMAIN src.items |-> src.items[k].videoId]

\* C1 as stated: with no start or end bound, the source of N items in pages
\* of P is paged through with exactly ceil(N/P) page requests, and N
\* identifiers are collected, for every N >= 0.
C1_AsStated ==
    NoFilter /\ PagingDone
        => /\ Cardinality(PageRequests) = Ceil(Len(src.items), src.P)
           /\ Len(video_ids) = Len(src.items)

\* C1 amended: with no start or end bound, the loop never issues more than
\* max(1, ceil(N/P)) page requests, and when it is left exactly that many
\* were issued (one request even when N = 0) and exactly the N identifiers
\* of the source are collected.
C1_PageCount ==
    NoFilter
        => /\ Cardinality(PageRequests) <= Max(1, Ceil(Len(src.items), src.P))
           /\ PagingDone
                => /\ Cardinality(PageRequests)
                        = Max(1, Ceil(Len(src.items), src.P))
                   /\ Len(video_ids) = Len(src.items)
                   /\ video_ids = SourceIds

C1_Witness ==
    /\ NoFilter
    /\ pc = "video"
    /\ Len(src.items) = 3
    /\ src.P = 2
    /\ Cardinality(PageRequests) = 2
    /\ Len(video_ids) = 3

\* the instant of an item whose publish timestamp parses
HasDate(item) ==
    item.publishedAt.t = "str" /\ item.publishedAt.s \in DOMAIN Rfc3339Instant

DateOf(item) == Rfc3339Instant[item.publishedAt.s]

\* strictly before the start bound or strictly after the end bound
Outside(item) ==
    \/ config.start_date # None /\ DateOf(item) < config.start_date.v
    \/ config.end_date # None /\ DateOf(item) > config.end_date.v

\* what a step from "item" does with an item by its date
FilterStep ==
    pc = "item" /\ HasDate(json')
        => IF Outside(json')
           THEN video_ids' = video_ids /\ result' = "running"
           ELSE json'.videoId.t = "str"
                    => video_ids' = Append(video_ids, json'.videoId.s)

\* the end of a page whose token and total are well formed
TrailerRead ==
    /\ pc = "page_end"
    /\ json'.nextPageToken.t # "wrong"
    /\ json'.totalResults.t = "num"

\* C2 as stated: an item outside [start, end] is not added to the list, and
\* the count the loop compares against the reported total includes it: the
\* loop goes on to another page only while the number of items processed,
\* skipped ones included, is below the total.
C2_AsStated ==
    [][/\ FilterStep
       /\ TrailerRead
            => (pc' = "page"
                    <=> ~(\/ array_len = 0
                          \/ json'.nextPageToken.t = "absent"
                          \/ processed >= json'.totalResults.n))]_vars

\* C2 amended: an item outside [start, end] is not added to the list and is
\* not counted either: the count compared against the reported total is the
\* length of the identifier list, so the loop goes on to another page only
\* while fewer identifiers than the total were collected, however many items
\* were processed.
C2_FilteredNotCounted ==
    [][/\ FilterStep
       /\ pc = "item" /\ result' = "running" => processed' = processed + 1
       /\ TrailerRead
            => /\ pc' = "page" => Len(video_ids) < json'.totalResults.n
               /\ (/\ array_len > 0
                   /\ json'.nextPageToken.t = "str"
                   /\ Len(video_ids) < json'.totalResults.n) => pc' = "page"]_vars

\* the loop goes on although the items processed reach the reported total
C2_Witness ==
    /\ pc = "page"
    /\ json.kind = "page_end"
    /\ processed > Len(video_ids)
    /\ processed >= json.totalResults.n

\* C3: after a page whose token and total are well formed, the loop stops
\* exactly when the page was empty, or there is no continuation token, or
\* the collected count has reached the reported total; stopping is no error
\* and leads to the per-video stage; otherwise the next request is a page
\* request carrying the returned token.
C3_StopRule ==
    [][/\ TrailerRead
            => LET stop == \/ array_len = 0
                           \/ json'.nextPageToken.t = "absent"
                           \/ Len(video_ids) >= json'.totalResults.n
               IN  /\ result' = "running" /\ error' = ""
                   /\ requests' = requests
                   /\ stop => pc' = (IF video_ids = <<>> THEN "output" ELSE "video")
                   /\ ~stop => pc' = "page"
       /\ pc = "page" /\ json.kind = "page_end"
            => requests' = Append(requests,
                    [kind |-> "playlistItems", playlistId |-> playlist_id_pub,
                     pageToken |-> json.nextPageToken.s])
       /\ pc = "video" /\ json.kind = "page_end"
            => requests'[Len(requests')].kind = "videos"]_vars

\* the loop was left on the reported total, a token in hand, after going on
\* at least once
C3_Witness ==
    /\ pc = "video"
    /\ result = "running"
    /\ json.kind = "page_end"
    /\ json.nextPageToken.t = "str"
    /\ Len(video_ids) >= json.totalResults.n
    /\ Cardinality(PageRequests) >= 2

\* the channel lookup reported a result count other than 1
NotOneResult ==
    /\ json.kind = "channel"
    /\ json.totalResults.t = "num"
    /\ json.totalResults.n # 1

\* a file that holds the CSV header or a CSV row
HasCsv(file) == \E k \in DOMAIN file : file[k].kind = "line"

\* C4 as stated: a channel lookup reporting 0 or 2+ results ends in success,
\* with no page request, no video request and the output left empty.
C4_AsStated ==
    NotOneResult
        => /\ result = "Ok" /\ pc = "done"
           /\ PageRequests = {} /\ VideoRequests = {}
           /\ out = <<>>

\* C4 amended: a channel lookup reporting 0 or 2+ results ends in success
\* after a warning, with no page request, no video request and no CSV
\* written; the output then holds the raw channel response when a sink is
\* configured, and is empty only when none is.
C4_NoOp ==
    NotOneResult
        => /\ result = "Ok" /\ pc = "done" /\ error = ""
           /\ requests = <<[kind |-> "channels"]>>
           /\ ~HasCsv(out)
           /\ out = (IF config.output THEN <<RawChunk(1)>> ELSE <<>>)
           /\ stdout = <<[line |-> "Warning: More than one result",
                          n |-> json.totalResults.n]>>

C4_Witness ==
    /\ NotOneResult
    /\ json.totalResults.n = 2
    /\ config.output
    /\ result = "Ok"
    /\ out = <<RawChunk(1)>>

\* what makes a step fail: a transport error or a non-success status or an
\* undecodable body, a field the step needs that is absent or of the wrong
\* type, a publish timestamp that does not parse
Fatal(j) ==
    CASE j.kind = "fault" -> TRUE
      [] j.kind = "channel" ->
            \/ j.totalResults.t # "num"
            \/ j.totalResults.n = 1 /\ j.uploads.t # "str"
      [] j.kind = "page" -> j.items.t # "arr"
      [] j.kind = "item" ->
            \/ ~HasDate(j)
            \/ ~Outside(j) /\ j.videoId.t # "str"
      [] j.kind = "page_end" ->
            \/ j.nextPageToken.t = "wrong"
            \/ j.totalResults.t # "num"
      [] j.kind = "video" ->
            \/ ~HasDate(j)
            \/ j.title.t # "str"
            \/ j.duration.t # "str"
      [] OTHER -> FALSE

\* C5: a step that fails fatally ends run() with an error at once: the
\* state it leaves is final, so no request follows it at any stage, and an
\* item whose timestamp does not parse is never skipped.
C5_FailFast ==
    [][/\ Fatal(json') => result' = "Err" /\ pc' = "done" /\ error' # ""
       /\ pc = "item" /\ ~HasDate(json')
            => result' = "Err" /\ idx' = idx /\ video_ids' = video_ids
       /\ result = "Err" => requests' = requests /\ result' = "Err"]_vars

\* a page fails at its second element, after an identifier was collected
C5_Witness ==
    /\ result = "Err"
    /\ json.kind = "item"
    /\ idx = 1
    /\ Len(video_ids) >= 1

\* the CSV rewrite of lines 215-221 has been done
CsvWritten ==
    \E k \in DOMAIN stdout :
        stdout[k].line = "Success, output written to 'output.txt'."

\* C6: with a sink configured, from the first response received until the
\* CSV rewrite the file holds the most recently received raw response and
\* nothing else; so it does whenever run() has ended in a failure after a
\* response was received.
C6_LastResponse ==
    config.output /\ received >= 1
        => /\ ~CsvWritten => out = <<RawChunk(received)>>
           /\ result \in {"Err", "panic"} => out = <<RawChunk(received)>>

\* a run that failed after its third response
C6_Witness ==
    /\ config.output
    /\ result = "Err"
    /\ received >= 3
    /\ out = <<RawChunk(received)>>

\* C7: the CSV is written at most once, and only with a record built for
\* every collected identifier; a run that ends in a failure never has the
\* header or a row in its output.
C7_CsvOnce ==
    /\ [](HasCsv(out)
            => /\ pc \in {"summary", "done"}
               /\ result \in {"running", "Ok"}
               /\ Len(videos) = Len(video_ids)
               /\ \A k \in DOMAIN videos : videos[k].id = video_ids[k])
    /\ [](result \in {"Err", "panic"} => ~HasCsv(out))
    /\ [][HasCsv(out) => out' = out]_vars
    /\ [][HasCsv(out') /\ ~HasCsv(out) => pc = "output"]_vars

C7_Witness ==
    /\ HasCsv(out)
    /\ Len(videos) >= 2
    /\ result = "Ok"

\* the identifiers of the video requests, in the order issued
VideoRequestIds ==
    LET vr == SelectSeq(requests, LAMBDA r : r.kind = "videos")
    IN  [k \in DOMAIN vr |-> vr[k].id]

\* run() has ended in success past the channel lookup
FullSuccess == result = "Ok" /\ json.kind # "channel"

\* C8: video requests are issued only once pagination is over, one per
\* collected identifier in the order of the list; a successful run has
\* issued exactly one per identifier, and its CSV is the header followed by
\* one row per identifier in that order.
C8_OnePerId ==
    /\ \A p \in PageRequests, v \in VideoRequests : p < v
    /\ pc \in {"channel", "page", "item", "page_end"} => VideoRequests = {}
    /\ Len(VideoRequestIds) <= Len(video_ids)
    /\ VideoRequestIds = SubSeq(video_ids, 1, Len(VideoRequestIds))
    /\ FullSuccess
        => /\ VideoRequestIds = video_ids
           /\ Len(videos) = Len(video_ids)
           /\ \A k \in DOMAIN videos : videos[k].id = video_ids[k]
           /\ config.output
                => /\ Len(out) = 1 + Len(video_ids)
                   /\ out[1] = LineChunk(CsvHeader)
                   /\ \A k \in DOMAIN videos :
                        out[k + 1] = LineChunk(Video_fmt(videos[k]))

\* a successful run over two different identifiers
C8_Witness ==
    /\ FullSuccess
    /\ config.output
    /\ Len(video_ids) >= 2
    /\ video_ids[1] # video_ids[2]

\* a video response that is well formed but for a duration that does not
\* parse
BadDuration(j) ==
    /\ j.kind = "video"
    /\ HasDate(j)
    /\ j.title.t = "str"
    /\ j.duration.t = "str"
    /\ parse_delta(j.duration.s) = None

SumPrinted == \E k \in DOMAIN stdout : stdout[k].line = "Sum total"

\* C9: every video record carries the span its duration parses to; the
\* first video whose duration does not parse ends run() with the error
\* naming the 'duration' field, no record added for it, no video requested
\* after it and no total printed.
C9_DurationParsed ==
    /\ [](\A k \in DOMAIN videos :
            parse_delta(videos[k].duration) = Some(videos[k].delta))
    /\ [][pc = "video" /\ BadDuration(json')
            => /\ result' = "Err"
               /\ error' = "Could not parse 'duration' field"
               /\ pc' = "done"
               /\ videos' = videos
               /\ stdout' = stdout]_vars
    /\ [][BadDuration(json) => UNCHANGED <<requests, videos, stdout>>]_vars
    /\ [](BadDuration(json) => result = "Err" /\ ~SumPrinted)

\* the second video's duration does not parse
C9_Witness ==
    /\ BadDuration(json)
    /\ result = "Err"
    /\ Len(videos) = 1
    /\ Len(video_ids) >= 2

RECURSIVE SpanSum(_, _)
SpanSum(vs, n) == IF n = 0 THEN 0 ELSE vs[n].delta + SpanSum(vs, n - 1)

\* C10: the summary of a successful run reports the sum of the spans of all
\* video records, zero for none, as its second count; the mixed-unit
\* rendering is shown with it exactly when the total is at least 60 seconds.
C10_SumTotal ==
    /\ FullSuccess => SumPrinted
    /\ \A k \in DOMAIN stdout :
        stdout[k].line = "Sum total"
            => /\ k = Len(stdout)
               /\ result = "Ok"
               /\ stdout[k].seconds = SpanSum(videos, Len(videos))
               /\ videos = <<>> => stdout[k].seconds = 0
               /\ stdout[k].rendering # None <=> stdout[k].seconds >= 60

\* two spans of 30 seconds sum to the minute that brings the rendering
C10_Witness ==
    /\ SumPrinted
    /\ Len(videos) = 2
    /\ videos[1].delta = 30
    /\ stdout[Len(stdout)].seconds = 60
    /\ stdout[Len(stdout)].rendering # None

(***************************************************************************)
(* The ceiling of the summary's rendering.                                 *)
(***************************************************************************)
TimeBases == {TB_Seconds, TB_Minutes, TB_Hours, TB_Days}

HasUnit(parts, unit) == \E p \in DOMAIN parts : parts[p].unit = unit

\* text is the text of a dissection of seconds that has a days component
\* and an hours component, if any, below 24
RenderedWithDays(text, seconds) ==
    \E b \in TimeBases :
        LET r == dissect(seconds, b)
        IN  /\ text = r.out
            /\ HasUnit(r.parts, "day")
            /\ \A p \in DOMAIN r.parts :
                   r.parts[p].unit = "hour" => r.parts[p].n < 24

\* C11: the rendering printed in the run summary uses days as the largest
\* unit: for every total of 86400 seconds or more it has a days component
\* and its hours component is below 24.
C11_AsStated ==
    \A k \in DOMAIN stdout :
        stdout[k].line = "Sum total" /\ stdout[k].seconds >= 86400
            => /\ stdout[k].rendering # None
               /\ RenderedWithDays(stdout[k].rendering.v, stdout[k].seconds)

(***************************************************************************)
(* dissect_delta on its own: a call with a span of whole seconds and a     *)
(* base, and its return.  The spans are d days, h hours, m minutes and s   *)
(* seconds with each count at and next to the edges of its range.          *)
(***************************************************************************)
Deltas ==
    {d * 86400 + h * 3600 + m * 60 + s :
        d \in 0..MaxDays, h \in {0, 1, 23}, m \in {0, 1, 59}, s \in {0, 1, 59}}

InitDissect ==
    /\ config = [start_date |-> None, end_date |-> None, output |-> FALSE]
    /\ src = NoSource
    /\ call \in [delta : Deltas, base : TimeBases, ret : {None}]
    /\ InitRun

DissectCall ==
    /\ call.ret = None
    /\ call' = [call EXCEPT !.ret = Some(dissect(call.delta, call.base))]
    /\ UNCHANGED <<config, src, pc, result, error, json, received, requests,
                   out, playlist_id_pub, video_ids, next_page_token, array_len,
                   idx, processed, videos, stdout>>

NextDissect == DissectCall

SpecDissect == InitDissect /\ [][NextDissect]_vars

Returned == call.ret # None

\* the seconds of one unit: TimeDelta::days(1), hours(1), minutes(1), seconds(1)
UnitSeconds(unit) ==
    CASE unit = "day" -> 86400
      [] unit = "hour" -> 3600
      [] unit = "minute" -> 60
      [] unit = "second" -> 1

\* the seconds the first n components stand for
RECURSIVE PartsSeconds(_, _)
PartsSeconds(parts, n) ==
    IF n = 0 THEN 0
    ELSE parts[n].n * UnitSeconds(parts[n].unit) + PartsSeconds(parts, n - 1)

\* C12: for every non-negative whole number of seconds t and every ceiling,
\* the components dissect_delta emits, each multiplied by the seconds of its
\* unit, sum to exactly t.
C12_RoundTrip ==
    Returned =>
        LET parts == call.ret.v.parts
        IN  PartsSeconds(parts, Len(parts)) = call.delta

\* 1 day 1 hour 1 minute 1 second, with the days enabled
C12_Witness ==
    /\ Returned
    /\ call.delta = 90061
    /\ call.base = TB_Days
    /\ call.ret.v.parts = <<[unit |-> "day", n |-> 1], [unit |-> "hour", n |-> 1],
                            [unit |-> "minute", n |-> 1],
                            [unit |-> "second", n |-> 1]>>

Units == {"day", "hour", "minute", "second"}

\* the base that enables a unit
UnitBase(unit) ==
    CASE unit = "day" -> TB_Days
      [] unit = "hour" -> TB_Hours
      [] unit = "minute" -> TB_Minutes
      [] unit = "second" -> TB_Seconds

\* the count emitted for a unit, zero when it has no component
CountOf(parts, unit) ==
    IF HasUnit(parts, unit)
    THEN (CHOOSE c \in {parts[p] : p \in DOMAIN parts} : c.unit = unit).n
    ELSE 0

\* the seconds taken by the components of the units above unit
RECURSIVE TakenAbove(_, _, _)
TakenAbove(parts, unit, n) ==
    IF n = 0 THEN 0
    ELSE (IF UnitBase(parts[n].unit) > UnitBase(unit)
          THEN parts[n].n * UnitSeconds(parts[n].unit) ELSE 0)
         + TakenAbove(parts, unit, n - 1)

\* C13: dissect_delta never emits a unit larger than the ceiling, and from
\* the ceiling unit down to seconds the count of each unit is the maximum
\* whole count of that unit in what remains; with ceiling seconds any t is
\* the single component t seconds, and below the largest enabled unit hours
\* are under 24, minutes under 60 and seconds under 60.
C13_Greedy ==
    Returned =>
        LET parts == call.ret.v.parts
            t == call.delta
        IN  /\ \A p \in DOMAIN parts : UnitBase(parts[p].unit) <= call.base
            /\ \A u \in Units :
                   UnitBase(u) <= call.base
                       => CountOf(parts, u)
                              = (t - TakenAbove(parts, u, Len(parts)))
                                    \div UnitSeconds(u)
            /\ call.base = TB_Seconds
                   => /\ parts = <<[unit |-> "second", n |-> t]>>
                      /\ call.ret.v.out
                             = IF t = 1 THEN "1 second"
                               ELSE ToString(t) \o " seconds"
            /\ \A p \in DOMAIN parts :
                   /\ parts[p].unit = "hour" /\ call.base > TB_Hours
                          => parts[p].n < 24
                   /\ parts[p].unit = "minute" /\ call.base > TB_Minutes
                          => parts[p].n < 60
                   /\ parts[p].unit = "second" /\ call.base > TB_Seconds
                          => parts[p].n < 60

\* nearly three days under the hours ceiling: 71 hours, no days
C13_Witness ==
    /\ Returned
    /\ call.base = TB_Hours
    /\ call.delta = 2 * 86400 + 23 * 3600 + 59 * 60 + 59
    /\ call.ret.v.parts = <<[unit |-> "hour", n |-> 71],
                            [unit |-> "minute", n |-> 59],
                            [unit |-> "second", n |-> 59]>>

\* one component as text: the count, the unit's name, an s unless the count is 1
ComponentText(c) ==
    ToString(c.n) \o " " \o c.unit \o (IF c.n = 1 THEN "" ELSE "s")

\* the components joined by a single space
RECURSIVE JoinedText(_)
JoinedText(parts) ==
    IF parts = <<>> THEN ""
    ELSE IF Len(parts) = 1 THEN ComponentText(parts[1])
    ELSE ComponentText(Head(parts)) \o " " \o JoinedText(Tail(parts))

\* C14: for every non-negative t and every ceiling, the text of
\* dissect_delta is never empty, is its components joined by single spaces,
\* has no component with count zero except the lone '0 seconds' of a zero
\* span, has the seconds component exactly when the seconds remainder is
\* nonzero or every larger component was zero, and lists the components from
\* the largest unit to the smallest.
C14_Text ==
    Returned =>
        LET parts == call.ret.v.parts
            text == call.ret.v.out
            t == call.delta
            remainder == t - TakenAbove(parts, "second", Len(parts))
        IN  /\ text # ""
            /\ text = JoinedText(parts)
            /\ \A p \in DOMAIN parts :
                   parts[p].n = 0
                       => /\ t = 0
                          /\ parts = <<[unit |-> "second", n |-> 0]>>
                          /\ text = "0 seconds"
            /\ HasUnit(parts, "second")
                   <=> \/ remainder # 0
                       \/ \A u \in Units \ {"second"} : CountOf(parts, u) = 0
            /\ \A p, q \in DOMAIN parts :
                   p < q => UnitBase(parts[p].unit) > UnitBase(parts[q].unit)

\* a day and a minute: no hours filler between them, no seconds after them
C14_Witness ==
    /\ Returned
    /\ call.base = TB_Days
    /\ call.delta = 86400 + 60
    /\ call.ret.v.out = "1 day 1 minute"

(***************************************************************************)
(* The date filter against the consistent source.                          *)
(***************************************************************************)
\* start <= publish timestamp <= end, a bound that is not configured
\* holding of every item
InRange(item) ==
    LET date == Rfc3339Instant[item.publishedAt]
    IN  /\ config.start_date.tag = "Some" => config.start_date.v <= date
        /\ config.end_date.tag = "Some" => date <= config.end_date.v

\* the identifiers of the source's items in range, in listing order
MatchingIds ==
    LET matching == SelectSeq(src.items, InRange)
    IN  [k \in DOMAIN matching |-> matching[k].videoId]

IsPrefix(s, t) == Len(s) <= Len(t) /\ s = SubSeq(t, 1, Len(s))

\* C15: with a start and/or end bound configured and a consistent source,
\* the pagination loop visits every page and the collected identifiers are
\* exactly those of the items with start <= publish timestamp <= end, in
\* listing order; no matching item of a later page is missed.
C15_FilteredComplete ==
    ~NoFilter
        => /\ IsPrefix(video_ids, MatchingIds)
           /\ PagingDone
                => /\ Cardinality(PageRequests)
                        = Max(1, Ceil(Len(src.items), src.P))
                   /\ video_ids = MatchingIds

\* the first page holds only items before the start bound, the match is on
\* the second page
C15_Witness ==
    /\ config.start_date = Some(2)
    /\ config.end_date = None
    /\ src.P = 2
    /\ [k \in DOMAIN src.items |-> src.items[k].publishedAt]
           = <<"2024-01-01T00:00:00Z", "2024-01-01T00:00:00Z",
               "2024-01-02T00:00:00Z">>
    /\ pc = "video"
    /\ Cardinality(PageRequests) = 2
    /\ video_ids = <<"v3">>

====
